---- MODULE Spec2Model ----
(***************************************************************************)
(* Two TCPishEndpoint objects (tcp_like.py) joined by an UnreliableChannel *)
(* with one UnreliableLink per direction (channel.py).                     *)
(*                                                                         *)
(* Every handler that runs under the endpoint lock (send_data, _timeout,   *)
(* on_receive) is one atomic action, including the channel's _send that it *)
(* calls.  A scheduled delivery is two steps: the checksum test, which     *)
(* runs without any lock, and on_receive, which waits for the receiver's   *)
(* lock.  A DATA packet is a Python dict that is shared between the        *)
(* sender's `sent` mapping, the link's reorder buffer and every scheduled  *)
(* delivery of it, so a packet in flight is a reference (src, seq) into    *)
(* the sender's `sent` mapping.                                            *)
(***************************************************************************)
EXTENDS Integers, Sequences, FiniteSets, Bags, TLC

VARIABLES
    endpoint,     \* endpoint[e]: the fields of TCPishEndpoint e
    link,         \* link[d]: the fields of the UnreliableLink of direction d
    flight,       \* bag of scheduled deliveries (threading.Timer(delay, deliver))
    firing,       \* firing[e]: timer threads of e that woke up and wait for the lock
    submitted,    \* history: payloads accepted by send_data of e, in order
    delivered,    \* history: payloads returned by recv_app_data of e, in order
    rx_mutated,   \* history: on_receive of e got a transmission the link had mutated
    rep_acks,     \* history: ACKs with ack = base - 1 received by e since base last moved
    budget,       \* bound: the send_data calls, timer firings and link faults explored
    reorder_log,  \* history: packets passed to / returned by maybe_reorder of link A
    enqueued,     \* history: enqueued[e]: the seq of each payload appended to app_rx of e
    last_call,    \* history: the entry point that ran last, its result and what it sent
    readers,      \* readers[c]: position of application thread c inside recv_app_data
    probe,        \* a packet dict handed to the checksum functions alone
    channel,      \* the event log of the UnreliableChannel and the threads inside _log_event
    threads       \* the threads inside the entry points: the lock each holds or waits for

vars == <<endpoint, link, flight, firing, submitted, delivered, rx_mutated, rep_acks,
          budget, reorder_log, enqueued, last_call, readers, probe, channel, threads>>

\* The variables that only the runs of a single function or entry point use
aside == <<reorder_log, readers, probe, channel, threads>>

----------------------------------------------------------------------------
(* Bounds of the model *)

MaxSend == 2          \* send_data calls accepted per endpoint
MaxBurst == 4         \* the same, in the run that sends a burst into a static window
MaxTimeouts == 2      \* timer firings per endpoint
MaxFaults == 2        \* drops and corruptions, in the run with bounded loss
MaxLen == 2           \* bytes of a payload handed to the checksum functions
MaxSeq == 2           \* seq / ack number of a packet handed to the checksum functions
SmallWindow == 2      \* the static window, in the run that fills it
MaxReorderCalls == 5  \* maybe_reorder calls, in the run of the reorder stage alone
LogLimit == 2         \* entries kept in log_events (10000 in channel.py), scaled down
MaxLogWrites == 4     \* _log_event calls, in the run of the channel log alone
MaxThreads == 3       \* threads alive at once, in the run of the locks alone
MaxCalls == 2         \* send_data and _timeout calls, in the run of the locks alone
MaxThreadSends == 3   \* _send calls, in the run of the locks alone

(* Program constants *)

DEFAULT_SSTHRESH_INIT == 65535
DEFAULT_CWND_INIT == 1
DEFAULT_AI_FACTOR == 1
MD_FACTOR_NUM == 1     \* DEFAULT_MD_FACTOR = 0.5 = MD_FACTOR_NUM / MD_FACTOR_DEN
MD_FACTOR_DEN == 2
WINDOW == 8
RTO_MAX == 60000
RTO_MIN == 100
MIN_SSTHRESH == 2
DUP_ACK_THRESHOLD == 3
CHECKSUM_MOD == 65536
CHECKSUM_BITS == 16
BYTE_MOD == 256

EP == {"A", "B"}
Peer(e) == IF e = "A" THEN "B" ELSE "A"

(* Inputs *)
Payloads == {<< >>, <<254, 255>>}           \* bytes handed to send_data
RtoSamples == {RTO_MIN}                \* RTO computed from an RTT sample


----------------------------------------------------------------------------
(* channel.py: checksum *)

\* a ^ b on 16-bit operands, bit by bit
RECURSIVE XorFrom(_, _, _)
XorFrom(a, b, i) ==
    IF i >= CHECKSUM_BITS THEN 0
    ELSE ((((a \div (2 ^ i)) + (b \div (2 ^ i))) % 2) * (2 ^ i)) + XorFrom(a, b, i + 1)

\* x and y name the values of the operands
Xor(a, b) == CHOOSE r \in {XorFrom(x, y, 0) : x \in {a}, y \in {b}} : TRUE

RECURSIVE XorAll(_, _)
XorAll(acc, s) ==
    IF s = << >> THEN acc ELSE XorAll(Xor(acc, Head(s) % CHECKSUM_MOD), Tail(s))

TypeChars(t) == IF t = "DATA" THEN <<68, 65, 84, 65>> ELSE <<65, 67, 75>>

\* Mutant: the payload bytes are left out of the checksum.
calculate_checksum_NoPayload(pkt) ==
    Xor(XorAll(0, TypeChars(pkt.type)), pkt.num % CHECKSUM_MOD)

\* The 16-bit mask of the result is applied to every operand instead: xor is
\* bitwise, and num may be -1 (an ACK before any DATA).
calculate_checksum(pkt) ==
    XorAll(Xor(XorAll(0, TypeChars(pkt.type)), pkt.num % CHECKSUM_MOD), pkt.payload)

verify_checksum(pkt) ==
    IF ~pkt.stamped THEN TRUE ELSE pkt.checksum = calculate_checksum(pkt)

add_checksum(pkt) ==
    [pkt EXCEPT !.checksum = calculate_checksum(pkt), !.stamped = TRUE]

\* A packet dict.  num is "seq" of a DATA packet and "ack" of an ACK packet; an
\* ACK has no payload key, which every reader treats like the empty payload.
NewPacket(t, n, data) ==
    [type |-> t, num |-> n, payload |-> data, checksum |-> 0, stamped |-> FALSE,
     corrupted |-> FALSE]

----------------------------------------------------------------------------
(* channel.py: UnreliableLink *)

\* The outcomes of random.random() < p
Draw(p) == IF p <= 0 THEN {FALSE} ELSE IF p >= 100 THEN {TRUE} ELSE BOOLEAN

\* A reference to a packet dict, as held by the reorder buffer or by a scheduled
\* delivery.  A DATA packet is the dict endpoint[src].sent[num], and its fields
\* are read there (checksum is 0 here); an ACK packet is a dict of its own, of
\* which only the checksum is written, once.  mutated is history: maybe_corrupt
\* changed the payload during this transmission.
Ref(t, s, n, c, m) == [type |-> t, src |-> s, num |-> n, checksum |-> c, mutated |-> m]
NoRef == Ref("NONE", "A", 0, 0, FALSE)

UnreliableLink(loss, corruption_prob, reorder_prob) ==
    [loss |-> loss, corruption_prob |-> corruption_prob, reorder_prob |-> reorder_prob,
     reorder_buffer |-> NoRef,
     packets_sent |-> 0, packets_lost |-> 0, packets_corrupted |-> 0,
     packets_reordered |-> 0]

\* hit: the draw against corruption_prob; idx: the byte picked (1-based)
maybe_corrupt(lk, pkt, hit, idx) ==
    IF hit /\ pkt.payload # << >>
    THEN [link |-> [lk EXCEPT !.packets_corrupted = @ + 1],
          pkt |-> [pkt EXCEPT !.payload[idx] = (@ + 1) % BYTE_MOD, !.corrupted = TRUE],
          mutated |-> TRUE]
    ELSE [link |-> lk, pkt |-> pkt, mutated |-> FALSE]

\* hit: the one draw against reorder_prob that the call makes.  out = NoRef is
\* the return value None.
maybe_reorder(lk, ref, hit) ==
    IF lk.reorder_prob <= 0
    THEN [link |-> lk, out |-> ref]
    ELSE IF lk.reorder_buffer = NoRef /\ hit
    THEN [link |-> [lk EXCEPT !.reorder_buffer = ref, !.packets_reordered = @ + 1],
          out |-> NoRef]
    ELSE IF lk.reorder_buffer # NoRef
    THEN [link |-> [lk EXCEPT !.reorder_buffer = IF hit THEN ref ELSE NoRef],
          out |-> lk.reorder_buffer]
    ELSE [link |-> lk, out |-> ref]

----------------------------------------------------------------------------
(* channel.py: UnreliableChannel._send *)

\* The random draws of one _send: drop, corrupt (with the byte index), hold.
Draws(lk, pkt) ==
    LET Corrupts == IF pkt.payload = << >> THEN {FALSE} ELSE Draw(lk.corruption_prob)
        Dropped == IF TRUE \in Draw(lk.loss)
                   THEN {[drop |-> TRUE, corrupt |-> FALSE, idx |-> 1, hold |-> FALSE]}
                   ELSE {}
        Passed == IF FALSE \in Draw(lk.loss)
                  THEN UNION {{[drop |-> FALSE, corrupt |-> c, idx |-> i, hold |-> h]
                                 : i \in IF c THEN 1 .. Len(pkt.payload) ELSE {1},
                                   h \in Draw(lk.reorder_prob)}
                              : c \in Corrupts}
                  ELSE {}
    IN  Dropped \cup Passed

Scheduled(ref, direction) == [ref |-> ref, dir |-> direction, verified |-> FALSE]

\* _send(pkt, direction) with the draws r; src is the endpoint that owns pkt.
\* Returns the link and the scheduled deliveries after the call, and the dict
\* pkt as the call leaves it (add_checksum and maybe_corrupt write into it).
\* A CHOOSE from a singleton names the value of a local variable of the source.
ChannelSend(lk, fl, pkt, src, direction, r) ==
    LET lk1 == [lk EXCEPT !.packets_sent = @ + 1]
        Routed(c) ==
            LET ref == Ref(pkt.type, src, pkt.num,
                           IF pkt.type = "ACK" THEN c.pkt.checksum ELSE 0, c.mutated)
                o == maybe_reorder(c.link, ref, r.hold)
            IN  [link |-> o.link,
                 flight |-> IF o.out = NoRef THEN fl
                            ELSE fl (+) SetToBag({Scheduled(o.out, direction)}),
                 pkt |-> c.pkt]
        Stamped(stamped) ==
            IF r.drop
            THEN [link |-> [lk1 EXCEPT !.packets_lost = @ + 1], flight |-> fl, pkt |-> stamped]
            ELSE CHOOSE res \in {Routed(c) : c \in {maybe_corrupt(lk1, stamped, r.corrupt, r.idx)}} :
                   TRUE
    IN  CHOOSE res \in {Stamped(stamped) : stamped \in {add_checksum(pkt)}} : TRUE

----------------------------------------------------------------------------
(* tcp_like.py: TCPishEndpoint *)

\* The record of one call of an entry point of endpoint e: arg is the number of
\* the packet on_receive was given, ret what send_data returned, tx the packets
\* the call handed to the channel (type and number of each).
Call(op, e, arg, ret, tx) == [op |-> op, e |-> e, arg |-> arg, ret |-> ret, tx |-> tx]
NoCall == Call("none", "A", 0, TRUE, << >>)
Sent(pkt) == <<[type |-> pkt.type, num |-> pkt.num]>>

\* cwnd is a float in the source; here it is the exact fraction n / d.
RECURSIVE Gcd(_, _)
Gcd(a, b) == IF b = 0 THEN a ELSE Gcd(b, a % b)
Frac(n, d) == LET g == Gcd(n, d) IN [n |-> n \div g, d |-> d \div g]
FracLess(a, b) == a.n * b.d < b.n * a.d
FracAdd(a, b) == Frac((a.n * b.d) + (b.n * a.d), a.d * b.d)
Max(a, b) == IF a >= b THEN a ELSE b
Min(a, b) == IF a <= b THEN a ELSE b

TCPishEndpoint(init_rto_ms, enable_congestion_control, ssthresh_init, cwnd_init) ==
    [nextseq |-> 0, base |-> 0, window |-> WINDOW,
     sent |-> << >>,            \* seq -> packet dict; sent_ts has the same keys
     app_rx |-> << >>,
     rto_ms |-> init_rto_ms,
     timer |-> "none",          \* self.timer: none, a pending Timer, an expired Timer
     last_acked |-> -1, dup_count |-> 0,
     enable_congestion_control |-> enable_congestion_control,
     ssthresh |-> ssthresh_init, cwnd |-> Frac(cwnd_init, 1),
     packets_sent |-> 0, packets_received |-> 0, retransmissions |-> 0,
     timeouts |-> 0, fast_retransmits |-> 0]

\* cancel() stops a pending Timer; the callback of a Timer that already woke up
\* still runs (it stays counted in firing).
CancelTimer(ep) == [ep EXCEPT !.timer = "none"]

\* Mutant: the new Timer is never started.
SetTimer_NotStarted(ep) == CancelTimer(ep)

\* _set_timer: cancel the old Timer, start a new one
SetTimer(ep) == [CancelTimer(ep) EXCEPT !.timer = "pending"]

\* effective_window, and the test nextseq < base + effective_window
EffectiveWindow(ep) ==
    IF ep.enable_congestion_control THEN ep.cwnd ELSE Frac(ep.window, 1)

WindowOpen(ep) == FracLess(Frac(ep.nextseq - ep.base, 1), EffectiveWindow(ep))

\* Mutant: the floor of 2 is forgotten.
DecreasedSsthresh_NoFloor(cwnd) == (cwnd.n * MD_FACTOR_NUM) \div (cwnd.d * MD_FACTOR_DEN)

\* max(2, int(cwnd * md_factor))
DecreasedSsthresh(cwnd) ==
    Max(MIN_SSTHRESH, (cwnd.n * MD_FACTOR_NUM) \div (cwnd.d * MD_FACTOR_DEN))

\* Mutant: the cap of 60 s is forgotten.
Backoff_NoCap(rto_ms) == rto_ms * 2

\* min(60000, int(rto_ms * 2))
Backoff(rto_ms) == Min(RTO_MAX, rto_ms * 2)

\* The body of send_data when the window is open; r: the draws of _send.
send_accepted(ep, lk, fl, e, data, r) ==
    LET seq == ep.nextseq
        tx == ChannelSend(lk, fl, NewPacket("DATA", seq, data), e, e, r)
        ep1 == [ep EXCEPT !.sent = (seq :> tx.pkt) @@ @, !.packets_sent = @ + 1]
        ep2 == IF ep.base = seq THEN SetTimer(ep1) ELSE ep1
    IN  [ep |-> [ep2 EXCEPT !.nextseq = @ + 1], link |-> tx.link, flight |-> tx.flight,
         tx |-> Sent(tx.pkt), ret |-> TRUE]

\* Mutant: a refused send is counted in packets_sent all the same.
send_data_CountsRefused(ep, lk, fl, e, data, r) ==
    IF WindowOpen(ep)
    THEN send_accepted(ep, lk, fl, e, data, r)
    ELSE [ep |-> [ep EXCEPT !.packets_sent = @ + 1], link |-> lk, flight |-> fl,
          tx |-> << >>, ret |-> FALSE]

\* send_data(data); ret is the value returned.
send_data(ep, lk, fl, e, data, r) ==
    IF WindowOpen(ep)
    THEN send_accepted(ep, lk, fl, e, data, r)
    ELSE [ep |-> ep, link |-> lk, flight |-> fl, tx |-> << >>, ret |-> FALSE]

\* Mutant: a timeout restarts cwnd at the floor of ssthresh instead of 1.
TimeoutDecrease_RestartsAtTwo(ep) ==
    IF ep.enable_congestion_control
    THEN [ep EXCEPT !.ssthresh = DecreasedSsthresh(ep.cwnd), !.cwnd = Frac(MIN_SSTHRESH, 1)]
    ELSE ep

\* Multiplicative decrease on a timeout
TimeoutDecrease(ep) ==
    IF ep.enable_congestion_control
    THEN [ep EXCEPT !.ssthresh = DecreasedSsthresh(ep.cwnd), !.cwnd = Frac(1, 1)]
    ELSE ep

\* The body of _timeout; r: the draws of _send (read only when it resends).
timeout(ep, lk, fl, e, r) ==
    LET ep0 == [ep EXCEPT !.timeouts = @ + 1]
        Resent(tx) ==
            LET ep1 == [ep0 EXCEPT !.sent[ep.base] = tx.pkt, !.retransmissions = @ + 1]
                ep2 == TimeoutDecrease(ep1)
                ep3 == [ep2 EXCEPT !.rto_ms = Backoff(@)]
            IN  [ep |-> SetTimer(ep3), link |-> tx.link, flight |-> tx.flight,
                 tx |-> Sent(tx.pkt)]
    IN  IF ep.base \in DOMAIN ep.sent
        THEN CHOOSE res \in {Resent(tx) : tx \in {ChannelSend(lk, fl, ep.sent[ep.base], e, e, r)}} :
               TRUE
        ELSE [ep |-> ep0, link |-> lk, flight |-> fl, tx |-> << >>]

\* Mutant: every in-order DATA adds one to cwnd, whatever ssthresh is.
Increase_AlwaysSlowStart(ep) ==
    IF ep.enable_congestion_control
    THEN [ep EXCEPT !.cwnd = FracAdd(@, Frac(1, 1))]
    ELSE ep

\* Additive increase on an in-order DATA packet
Increase(ep) ==
    IF ep.enable_congestion_control /\ FracLess(ep.cwnd, Frac(ep.ssthresh, 1))
    THEN [ep EXCEPT !.cwnd = FracAdd(@, Frac(1, 1))]
    ELSE IF ep.enable_congestion_control
    THEN [ep EXCEPT !.cwnd = FracAdd(@, Frac(DEFAULT_AI_FACTOR * @.d, @.n))]
    ELSE ep

\* Mutant: DATA beyond a gap is delivered too.
on_receive_data_AcceptsGaps(ep, lk, fl, e, pkt, r) ==
    LET ep1 == IF pkt.num > ep.last_acked
               THEN Increase([ep EXCEPT !.app_rx = Append(@, pkt.payload),
                                        !.last_acked = pkt.num,
                                        !.packets_received = @ + 1])
               ELSE ep
        tx == ChannelSend(lk, fl, NewPacket("ACK", ep1.last_acked, << >>), e, e, r)
    IN  [ep |-> ep1, link |-> tx.link, flight |-> tx.flight, tx |-> Sent(tx.pkt)]

\* Mutant: only DATA that is in order is acknowledged.
on_receive_data_SilentOnGap(ep, lk, fl, e, pkt, r) ==
    IF pkt.num = ep.last_acked + 1
    THEN LET ep1 == Increase([ep EXCEPT !.app_rx = Append(@, pkt.payload),
                                        !.last_acked = @ + 1,
                                        !.packets_received = @ + 1])
             tx == ChannelSend(lk, fl, NewPacket("ACK", ep1.last_acked, << >>), e, e, r)
         IN  [ep |-> ep1, link |-> tx.link, flight |-> tx.flight, tx |-> Sent(tx.pkt)]
    ELSE [ep |-> ep, link |-> lk, flight |-> fl, tx |-> << >>]

\* on_receive, DATA branch; pkt: the dict as it is when the lock is taken.
on_receive_data(ep, lk, fl, e, pkt, r) ==
    LET ep1 == IF pkt.num = ep.last_acked + 1
               THEN Increase([ep EXCEPT !.app_rx = Append(@, pkt.payload),
                                        !.last_acked = @ + 1,
                                        !.packets_received = @ + 1])
               ELSE ep
        tx == ChannelSend(lk, fl, NewPacket("ACK", ep1.last_acked, << >>), e, e, r)
    IN  [ep |-> ep1, link |-> tx.link, flight |-> tx.flight, tx |-> Sent(tx.pkt)]

\* The test that an ACK below base is a duplicate ACK
IsDuplicateAck(ep, ack) == ack = ep.last_acked

\* The test that a duplicate ACK triggers a fast retransmit
FastRetransmitDue(ep) == ep.dup_count >= DUP_ACK_THRESHOLD /\ ep.base \in DOMAIN ep.sent

\* Mutant: a fast retransmit restarts slow start, as a timeout does.
FastRecovery_RestartsSlowStart(ep) ==
    IF ep.enable_congestion_control
    THEN [ep EXCEPT !.ssthresh = DecreasedSsthresh(ep.cwnd), !.cwnd = Frac(1, 1)]
    ELSE ep

\* Multiplicative decrease on a fast retransmit
FastRecovery(ep) ==
    IF ep.enable_congestion_control
    THEN LET s == DecreasedSsthresh(ep.cwnd)
         IN  [ep EXCEPT !.ssthresh = s, !.cwnd = Frac(s, 1)]
    ELSE ep

\* Mutant: base moves one past the segment after the acknowledged one.
NewAck_SkipsOne(ep, ack, rto) ==
    LET ep2 == [ep EXCEPT !.base = ack + 2]
        ep3 == IF ep2.base = ep2.nextseq THEN CancelTimer(ep2) ELSE SetTimer(ep2)
    IN  [ep3 EXCEPT !.dup_count = 0]

\* Mutant: the timer is re-armed also when the window drains.
NewAck_KeepsTimer(ep, ack, rto) ==
    [SetTimer([ep EXCEPT !.base = ack + 1]) EXCEPT !.dup_count = 0]

\* Mutant: an ACK that advances base also grows cwnd, as the additive rule
\* does on DATA.
NewAck_GrowsCwnd(ep, ack, rto) ==
    LET ep1 == IF ack \in DOMAIN ep.sent THEN [ep EXCEPT !.rto_ms = rto] ELSE ep
        ep2 == [Increase(ep1) EXCEPT !.base = ack + 1]
        ep3 == IF ep2.base = ep2.nextseq THEN CancelTimer(ep2) ELSE SetTimer(ep2)
    IN  [ep3 EXCEPT !.dup_count = 0]

\* on_receive, ACK branch with ack >= base; rto: the RTO that the estimator
\* computes from the RTT sample (it depends on the clock).
NewAck(ep, ack, rto) ==
    LET ep1 == IF ack \in DOMAIN ep.sent THEN [ep EXCEPT !.rto_ms = rto] ELSE ep
        ep2 == [ep1 EXCEPT !.base = ack + 1]
        ep3 == IF ep2.base = ep2.nextseq THEN CancelTimer(ep2) ELSE SetTimer(ep2)
    IN  [ep3 EXCEPT !.dup_count = 0]

\* on_receive, ACK branch; r: the draws of _send (read only when it resends).
on_receive_ack(ep, lk, fl, e, ack, rto, r) ==
    IF ack >= ep.base
    THEN [ep |-> NewAck(ep, ack, rto), link |-> lk, flight |-> fl, tx |-> << >>]
    ELSE IF IsDuplicateAck(ep, ack)
    THEN LET ep1 == [ep EXCEPT !.dup_count = @ + 1]
         IN  IF FastRetransmitDue(ep1)
             THEN LET tx == ChannelSend(lk, fl, ep1.sent[ep1.base], e, e, r)
                      ep2 == [ep1 EXCEPT !.fast_retransmits = @ + 1,
                                         !.sent[ep1.base] = tx.pkt,
                                         !.retransmissions = @ + 1]
                  IN  [ep |-> SetTimer(FastRecovery(ep2)),
                       link |-> tx.link, flight |-> tx.flight, tx |-> Sent(tx.pkt)]
             ELSE [ep |-> ep1, link |-> lk, flight |-> fl, tx |-> << >>]
    ELSE [ep |-> ep, link |-> lk, flight |-> fl, tx |-> << >>]

----------------------------------------------------------------------------
(* The system: construction, and one action per entry point *)

\* The constructions explored: link settings (probabilities in percent),
\* endpoint parameters, and how many send_data calls and timer firings of each
\* endpoint are followed.
Setting(loss, corruption_prob, reorder_prob) ==
    [loss |-> loss, corruption_prob |-> corruption_prob, reorder_prob |-> reorder_prob]
Clean == Setting(0, 0, 0)
Both(x) == [e \in EP |-> x]
OneWay(n) == [e \in EP |-> IF e = "A" THEN n ELSE 0]

Scenarios ==
    { \* A -> B corrupts; one-way transfer
      [links |-> [A |-> Setting(0, 50, 0), B |-> Clean],
       rto |-> 200, cc |-> Both(TRUE), ssthresh |-> DEFAULT_SSTHRESH_INIT, cwnd |-> DEFAULT_CWND_INIT,
       bounded_faults |-> FALSE, trace |-> FALSE, shared |-> FALSE, window |-> WINDOW, payloads |-> Payloads,
       sends |-> OneWay(MaxSend), fires |-> OneWay(MaxTimeouts)],
      \* A -> B loses; both endpoints send
      [links |-> [A |-> Setting(50, 0, 0), B |-> Clean],
       rto |-> 40000, cc |-> Both(TRUE), ssthresh |-> MIN_SSTHRESH, cwnd |-> DEFAULT_CWND_INIT,
       bounded_faults |-> FALSE, trace |-> FALSE, shared |-> FALSE, window |-> WINDOW, payloads |-> {<<7>>},
       sends |-> Both(MaxSend), fires |-> OneWay(MaxTimeouts - 1)],
      \* A -> B loses; A sends a burst into a congestion window of 4
      [links |-> [A |-> Setting(50, 0, 0), B |-> Clean],
       rto |-> 200, cc |-> Both(TRUE), ssthresh |-> DEFAULT_SSTHRESH_INIT, cwnd |-> 4,
       bounded_faults |-> FALSE, trace |-> FALSE, shared |-> FALSE, window |-> WINDOW, payloads |-> {<<7>>},
       sends |-> OneWay(MaxBurst), fires |-> OneWay(MaxTimeouts - 1)],
      \* both directions reorder; one-way transfer into the static window
      [links |-> Both(Setting(0, 0, 50)),
       rto |-> 200, cc |-> Both(FALSE), ssthresh |-> DEFAULT_SSTHRESH_INIT, cwnd |-> DEFAULT_CWND_INIT,
       bounded_faults |-> FALSE, trace |-> FALSE, shared |-> FALSE, window |-> WINDOW, payloads |-> {<<7>>},
       sends |-> OneWay(MaxSend + 1), fires |-> OneWay(MaxTimeouts - 1)],
      \* both directions lose, corrupt and reorder; one-way transfer
      [links |-> Both(Setting(50, 50, 50)),
       rto |-> 200, cc |-> Both(TRUE), ssthresh |-> DEFAULT_SSTHRESH_INIT, cwnd |-> DEFAULT_CWND_INIT,
       bounded_faults |-> FALSE, trace |-> FALSE, shared |-> FALSE, window |-> WINDOW, payloads |-> Payloads,
       sends |-> OneWay(MaxSend), fires |-> OneWay(MaxTimeouts - 1)],
      \* no fault; both endpoints send, B one segment more, into congestion
      \* windows that the received DATA opens
      [links |-> Both(Clean),
       rto |-> 200, cc |-> Both(TRUE), ssthresh |-> MIN_SSTHRESH, cwnd |-> DEFAULT_CWND_INIT,
       bounded_faults |-> FALSE, trace |-> FALSE, shared |-> FALSE, window |-> WINDOW, payloads |-> {<<7>>},
       sends |-> [A |-> MaxSend, B |-> MaxSend + 1], fires |-> Both(0)],
      \* A -> B loses, MaxFaults times at most; A sends a longer burst into the
      \* static window
      [links |-> [A |-> Setting(50, 0, 0), B |-> Clean],
       rto |-> 200, cc |-> Both(FALSE), ssthresh |-> DEFAULT_SSTHRESH_INIT, cwnd |-> DEFAULT_CWND_INIT,
       bounded_faults |-> TRUE, trace |-> FALSE, shared |-> FALSE, window |-> WINDOW, payloads |-> {<<7>>},
       sends |-> OneWay(MaxBurst + 1), fires |-> Both(0)] }

\* Application threads that call recv_app_data of endpoint B
Readers == {1, 2}
Idle == [pc |-> "idle", got |-> << >>, failed |-> FALSE]

\* Threads that run _log_event of the channel: the send paths of the two
\* endpoints and the delivery threads
Loggers == {1, 2, 3}

\* The channel after construction.  log_events: the list; logged: every event
\* ever appended, in order (history); pc, kept: where thread t stands inside
\* _log_event and the slice it has computed.
UnreliableChannel ==
    [log_events |-> << >>, logged |-> << >>,
     pc |-> [t \in Loggers |-> "idle"], kept |-> [t \in Loggers |-> << >>]]

\* The threads that run entry points of the endpoints: application threads
\* (send_data), Timer threads of _set_timer (_timeout) and Timer threads of
\* _send (deliver, which calls on_receive).  of[t]: what thread t does (pc),
\* on which endpoint (e), the locks it holds, and the counter value it read;
\* calls, sends: the entry points called and the _send calls made so far.
Tids == 1 .. MaxThreads
NoThread == [pc |-> "free", e |-> "A", holds |-> {}, tmp |-> 0]
NoThreads == [of |-> [t \in Tids |-> NoThread], calls |-> 0, sends |-> 0]

NoProbe == [stage |-> "none", pkt |-> NewPacket("DATA", 0, << >>)]

InitFor(s) ==
    /\ endpoint = [e \in EP |->
                     [TCPishEndpoint(s.rto, s.cc[e], s.ssthresh, s.cwnd)
                        EXCEPT !.window = s.window]]
    /\ link = [d \in EP |-> UnreliableLink(s.links[d].loss, s.links[d].corruption_prob,
                                           s.links[d].reorder_prob)]
    /\ flight = EmptyBag
    /\ firing = [e \in EP |-> 0]
    /\ submitted = [e \in EP |-> << >>]
    /\ delivered = [e \in EP |-> << >>]
    /\ rx_mutated = [e \in EP |-> FALSE]
    /\ rep_acks = [e \in EP |-> 0]
    /\ budget = [sends |-> s.sends, fires |-> s.fires, payloads |-> s.payloads,
                 bounded_faults |-> s.bounded_faults, trace |-> s.trace,
                 shared |-> s.shared]
    /\ reorder_log = [in |-> << >>, out |-> << >>]
    /\ enqueued = [e \in EP |-> << >>]
    /\ last_call = NoCall
    /\ readers = [c \in Readers |-> Idle]
    /\ channel = UnreliableChannel
    /\ threads = NoThreads

Init == probe = NoProbe /\ \E s \in Scenarios : InitFor(s)

\* The constructions explored with the calls recorded in last_call
TraceScenarios ==
    { \* both links lose; one-way transfer into a congestion window of 1
      [links |-> Both(Setting(50, 0, 0)),
       rto |-> 200, cc |-> Both(TRUE), ssthresh |-> DEFAULT_SSTHRESH_INIT, cwnd |-> DEFAULT_CWND_INIT,
       bounded_faults |-> FALSE, trace |-> TRUE, shared |-> FALSE, window |-> WINDOW, payloads |-> {<<7>>},
       sends |-> OneWay(MaxSend), fires |-> OneWay(MaxTimeouts - 1)],
      \* A -> B loses; one-way transfer into a static window of SmallWindow
      [links |-> [A |-> Setting(50, 0, 0), B |-> Clean],
       rto |-> 200, cc |-> [A |-> FALSE, B |-> TRUE], ssthresh |-> MIN_SSTHRESH,
       cwnd |-> DEFAULT_CWND_INIT,
       bounded_faults |-> FALSE, trace |-> TRUE, shared |-> FALSE, window |-> SmallWindow, payloads |-> {<<7>>},
       sends |-> OneWay(SmallWindow + 1), fires |-> OneWay(MaxTimeouts - 1)],
      \* no fault; both endpoints send
      [links |-> Both(Clean),
       rto |-> 200, cc |-> Both(TRUE), ssthresh |-> MIN_SSTHRESH, cwnd |-> DEFAULT_CWND_INIT,
       bounded_faults |-> FALSE, trace |-> TRUE, shared |-> FALSE, window |-> WINDOW, payloads |-> {<<7>>},
       sends |-> Both(MaxSend), fires |-> Both(0)] }

InitTrace == probe = NoProbe /\ \E s \in TraceScenarios : InitFor(s)

\* The link object that _send uses for direction d: self.ab or self.ba, which
\* are one object when the channel was built with ab_link = ba_link.
Via(d) == IF budget.shared THEN "A" ELSE d

\* last_call after a call c, in a run that records the calls
Record(c) == last_call' = IF budget.trace THEN c ELSE last_call

\* The dict a reference points to, as it is now
Deref(ref) ==
    IF ref.type = "DATA"
    THEN endpoint[ref.src].sent[ref.num]
    ELSE [NewPacket("ACK", ref.num, << >>) EXCEPT !.checksum = ref.checksum,
                                                   !.stamped = TRUE]

NoDraw == [drop |-> FALSE, corrupt |-> FALSE, idx |-> 1, hold |-> FALSE]

\* The draws followed for one _send: all of them, or, in a run with bounded
\* loss, none that drops or corrupts once the links have done so MaxFaults times.
Faults == link["A"].packets_lost + link["A"].packets_corrupted
          + link["B"].packets_lost + link["B"].packets_corrupted

Fates(lk, pkt) ==
    IF budget.bounded_faults /\ Faults >= MaxFaults
    THEN {r \in Draws(lk, pkt) : ~r.drop /\ ~r.corrupt}
    ELSE Draws(lk, pkt)

\* The application calls send_data(data) on e.
SendData(e, data) ==
    /\ endpoint[e].nextseq < budget.sends[e]
    /\ \E r \in IF WindowOpen(endpoint[e])
                THEN Fates(link[Via(e)], NewPacket("DATA", endpoint[e].nextseq, data))
                ELSE {NoDraw} :
          \E res \in {send_data(endpoint[e], link[Via(e)], flight, e, data, r)} :
              /\ endpoint' = [endpoint EXCEPT ![e] = res.ep]
              /\ link' = [link EXCEPT ![Via(e)] = res.link]
              /\ flight' = res.flight
              /\ submitted' = [submitted EXCEPT ![e] = IF res.ret THEN Append(@, data) ELSE @]
              /\ Record(Call("send_data", e, endpoint[e].nextseq, res.ret, res.tx))
    /\ UNCHANGED <<firing, delivered, rx_mutated, rep_acks, budget, enqueued, aside>>

\* The application calls recv_app_data() on e.
RecvAppData(e) ==
    IF endpoint[e].app_rx # << >>
    THEN /\ endpoint' = [endpoint EXCEPT ![e].app_rx = Tail(@)]
         /\ delivered' = [delivered EXCEPT ![e] = Append(@, Head(endpoint[e].app_rx))]
         /\ Record(Call("recv_app_data", e, 0, TRUE, << >>))
         /\ UNCHANGED <<link, flight, firing, submitted, rx_mutated, rep_acks, budget, enqueued, aside>>
    ELSE /\ Record(Call("recv_app_data", e, 0, FALSE, << >>))
         /\ UNCHANGED <<endpoint, link, flight, firing, submitted, delivered, rx_mutated,
                        rep_acks, budget, enqueued, aside>>

\* The pending retransmission Timer of e wakes up; its thread will call _timeout.
TimerFire(e) ==
    /\ endpoint[e].timer = "pending"
    /\ endpoint[e].timeouts + firing[e] < budget.fires[e]
    /\ endpoint' = [endpoint EXCEPT ![e].timer = "expired"]
    /\ firing' = [firing EXCEPT ![e] = @ + 1]
    /\ Record(Call("timer", e, 0, TRUE, << >>))
    /\ UNCHANGED <<link, flight, submitted, delivered, rx_mutated, rep_acks, budget, enqueued, aside>>

\* A timer thread of e gets the lock and runs _timeout.
Timeout(e) ==
    /\ firing[e] > 0
    /\ \E r \in IF endpoint[e].base \in DOMAIN endpoint[e].sent
                THEN Fates(link[Via(e)], endpoint[e].sent[endpoint[e].base])
                ELSE {NoDraw} :
          \E res \in {timeout(endpoint[e], link[Via(e)], flight, e, r)} :
              /\ endpoint' = [endpoint EXCEPT ![e] = res.ep]
              /\ link' = [link EXCEPT ![Via(e)] = res.link]
              /\ flight' = res.flight
              /\ Record(Call("_timeout", e, 0, TRUE, res.tx))
    /\ firing' = [firing EXCEPT ![e] = @ - 1]
    /\ UNCHANGED <<submitted, delivered, rx_mutated, rep_acks, budget, enqueued, aside>>

\* deliver(), first half: the checksum test, made without any lock.
Verify(m) ==
    /\ BagIn(m, flight)
    /\ ~m.verified
    /\ flight' = IF verify_checksum(Deref(m.ref))
                 THEN (flight (-) SetToBag({m})) (+) SetToBag({[m EXCEPT !.verified = TRUE]})
                 ELSE flight (-) SetToBag({m})
    /\ Record(Call("deliver", Peer(m.dir), m.ref.num, verify_checksum(Deref(m.ref)), << >>))
    /\ UNCHANGED <<endpoint, link, firing, submitted, delivered, rx_mutated, rep_acks,
                   budget, enqueued, aside>>

\* deliver(), second half: on_receive of the peer, DATA packet.
ReceiveData(m) ==
    /\ BagIn(m, flight)
    /\ m.verified
    /\ m.ref.type = "DATA"
    /\ LET e == Peer(m.dir)
       IN  \E r \in Fates(link[Via(e)], NewPacket("ACK", 0, << >>)) :
              \E res \in {on_receive_data(endpoint[e], link[Via(e)], flight (-) SetToBag({m}),
                                         e, Deref(m.ref), r)} :
                  /\ endpoint' = [endpoint EXCEPT ![e] = res.ep]
                  /\ link' = [link EXCEPT ![Via(e)] = res.link]
                  /\ flight' = res.flight
                  /\ rx_mutated' = [rx_mutated EXCEPT ![e] = @ \/ m.ref.mutated]
                  /\ enqueued' = [enqueued EXCEPT ![e] =
                                    IF Len(res.ep.app_rx) > Len(endpoint[e].app_rx)
                                    THEN Append(@, m.ref.num) ELSE @]
                  /\ Record(Call("on_receive_DATA", e, m.ref.num, TRUE, res.tx))
    /\ UNCHANGED <<firing, submitted, delivered, rep_acks, budget, aside>>

\* deliver(), second half: on_receive of the peer, ACK packet.
ReceiveAck(m) ==
    /\ BagIn(m, flight)
    /\ m.verified
    /\ m.ref.type = "ACK"
    /\ LET e == Peer(m.dir)
           ep == endpoint[e]
           ack == Deref(m.ref).num
           resend == /\ ack < ep.base
                     /\ IsDuplicateAck(ep, ack)
                     /\ FastRetransmitDue([ep EXCEPT !.dup_count = @ + 1])
       IN  /\ \E rto \in RtoSamples :
               \E r \in IF resend THEN Fates(link[Via(e)], ep.sent[ep.base]) ELSE {NoDraw} :
                  \E res \in {on_receive_ack(ep, link[Via(e)], flight (-) SetToBag({m}),
                                            e, ack, rto, r)} :
                      /\ endpoint' = [endpoint EXCEPT ![e] = res.ep]
                      /\ link' = [link EXCEPT ![Via(e)] = res.link]
                      /\ flight' = res.flight
                      /\ Record(Call("on_receive_ACK", e, ack, TRUE, res.tx))
           /\ rx_mutated' = [rx_mutated EXCEPT ![e] = @ \/ m.ref.mutated]
           /\ rep_acks' = [rep_acks EXCEPT ![e] =
                             IF ack >= ep.base THEN 0
                             ELSE IF ack = ep.base - 1 THEN @ + 1
                             ELSE @]
    /\ UNCHANGED <<firing, submitted, delivered, budget, enqueued, aside>>

Next ==
    \/ \E e \in EP, data \in budget.payloads : SendData(e, data)
    \/ \E e \in EP : RecvAppData(e)
    \/ \E e \in EP : TimerFire(e)
    \/ \E e \in EP : Timeout(e)
    \/ \E m \in BagToSet(flight) : Verify(m)
    \/ \E m \in BagToSet(flight) : ReceiveData(m)
    \/ \E m \in BagToSet(flight) : ReceiveAck(m)

Spec == Init /\ [][Next]_vars

SpecTrace == InitTrace /\ [][Next]_vars

----------------------------------------------------------------------------
(* The reorder stage alone: maybe_reorder of link A is called with a sequence *)
(* of distinct packets, for each setting of reorder_prob.                     *)

InitReorder ==
    /\ \E p \in {0, 50, 100} :
        InitFor([links |-> Both(Setting(0, 0, p)),
                 rto |-> 200, cc |-> Both(TRUE), ssthresh |-> DEFAULT_SSTHRESH_INIT,
                 cwnd |-> DEFAULT_CWND_INIT, bounded_faults |-> FALSE, trace |-> FALSE, shared |-> FALSE, window |-> WINDOW,
                 payloads |-> Payloads, sends |-> Both(0), fires |-> Both(0)])
    /\ probe = NoProbe

\* One call maybe_reorder(pkt); the k-th packet passed in has number k and type t.
ReorderCall(t) ==
    /\ Len(reorder_log.in) < MaxReorderCalls
    /\ \E hit \in Draw(link["A"].reorder_prob) :
          LET ref == Ref(t, "A", Len(reorder_log.in), 0, FALSE)
              o == maybe_reorder(link["A"], ref, hit)
          IN  /\ link' = [link EXCEPT !["A"] = o.link]
              /\ reorder_log' = [in |-> Append(reorder_log.in, ref),
                                 out |-> IF o.out = NoRef THEN reorder_log.out
                                         ELSE Append(reorder_log.out, o.out)]
    /\ UNCHANGED <<endpoint, flight, firing, submitted, delivered, rx_mutated, rep_acks,
                   budget, enqueued, last_call, readers, probe, channel, threads>>

NextReorder == \E t \in {"DATA", "ACK"} : ReorderCall(t)

SpecReorder == InitReorder /\ [][NextReorder]_vars

----------------------------------------------------------------------------
(* The checksum functions alone: add_checksum on a packet, then one payload *)
(* byte replaced, then verify_checksum                                      *)

ByteSamples == {0, 1, 128, 255}
ProbePayloads == UNION {[1 .. n -> ByteSamples] : n \in 0 .. MaxLen}
ProbePackets ==
    {NewPacket("DATA", n, data) : n \in 0 .. MaxSeq, data \in ProbePayloads}
        \cup {NewPacket("ACK", n, << >>) : n \in (-1) .. MaxSeq}

Quiet == [links |-> Both(Clean), rto |-> 200, cc |-> Both(TRUE),
          ssthresh |-> DEFAULT_SSTHRESH_INIT, cwnd |-> DEFAULT_CWND_INIT,
          bounded_faults |-> FALSE, trace |-> FALSE, shared |-> FALSE, window |-> WINDOW, payloads |-> Payloads,
          sends |-> Both(0), fires |-> Both(0)]

InitChecksum ==
    /\ InitFor(Quiet)
    /\ \E pkt \in ProbePackets : probe = [stage |-> "new", pkt |-> pkt]

\* add_checksum(pkt)
Stamp ==
    /\ probe.stage = "new"
    /\ probe' = [stage |-> "stamped", pkt |-> add_checksum(probe.pkt)]
    /\ UNCHANGED <<endpoint, link, flight, firing, submitted, delivered, rx_mutated,
                   rep_acks, budget, reorder_log, enqueued, last_call, readers, channel, threads>>

\* Byte i of the payload of the stamped packet is replaced by b, another value.
Alter(i, b) ==
    /\ probe.stage = "stamped"
    /\ i \in 1 .. Len(probe.pkt.payload)
    /\ b # probe.pkt.payload[i]
    /\ probe' = [stage |-> "altered", pkt |-> [probe.pkt EXCEPT !.payload[i] = b]]
    /\ UNCHANGED <<endpoint, link, flight, firing, submitted, delivered, rx_mutated,
                   rep_acks, budget, reorder_log, enqueued, last_call, readers, channel, threads>>

NextChecksum ==
    \/ Stamp
    \/ \E i \in 1 .. MaxLen, b \in 0 .. (BYTE_MOD - 1) : Alter(i, b)

SpecChecksum == InitChecksum /\ [][NextChecksum]_vars

----------------------------------------------------------------------------
(* Bounded loss and a patient timer: the links drop or corrupt at most       *)
(* MaxFaults transmissions, the retransmission timer fires only once every   *)
(* scheduled delivery has run (the RTO exceeds the link delay), and every    *)
(* thread that is ready to run eventually runs.                              *)

InitLive ==
    /\ InitFor([links |-> Both(Setting(50, 50, 0)),
             rto |-> 200, cc |-> Both(TRUE), ssthresh |-> DEFAULT_SSTHRESH_INIT,
             cwnd |-> DEFAULT_CWND_INIT, bounded_faults |-> TRUE, trace |-> FALSE, shared |-> FALSE, window |-> WINDOW,
             payloads |-> Payloads,
             sends |-> OneWay(MaxSend), fires |-> OneWay(MaxFaults + 1)])
    /\ probe = NoProbe

TimerFireQuiet(e) == flight = EmptyBag /\ firing[e] = 0 /\ TimerFire(e)

NextLive ==
    \/ \E e \in EP, data \in budget.payloads : SendData(e, data)
    \/ \E e \in EP : RecvAppData(e)
    \/ \E e \in EP : TimerFireQuiet(e)
    \/ \E e \in EP : Timeout(e)
    \/ \E m \in BagToSet(flight) : Verify(m)
    \/ \E m \in BagToSet(flight) : ReceiveData(m)
    \/ \E m \in BagToSet(flight) : ReceiveAck(m)

SpecLive ==
    /\ InitLive
    /\ [][NextLive]_vars
    /\ \A e \in EP : WF_vars(TimerFireQuiet(e)) /\ WF_vars(Timeout(e))
    /\ WF_vars(\E m \in BagToSet(flight) : Verify(m))
    /\ WF_vars(\E m \in BagToSet(flight) : ReceiveData(m))
    /\ WF_vars(\E m \in BagToSet(flight) : ReceiveAck(m))

----------------------------------------------------------------------------
(* Two application threads call recv_app_data of the same endpoint.          *)
(* recv_app_data takes no lock: `self.app_rx.popleft() if self.app_rx else   *)
(* None` first tests the deque and then pops it, and another thread can run  *)
(* between the two.                                                          *)

InitRecv ==
    /\ InitFor([links |-> Both(Clean),
                rto |-> 200, cc |-> Both(TRUE), ssthresh |-> DEFAULT_SSTHRESH_INIT,
                cwnd |-> DEFAULT_CWND_INIT, bounded_faults |-> FALSE, trace |-> FALSE, shared |-> FALSE,
                window |-> WINDOW, payloads |-> Payloads,
                sends |-> OneWay(MaxSend), fires |-> Both(0)])
    /\ probe = NoProbe

\* Thread c evaluates the condition `self.app_rx` of recv_app_data on e: an
\* empty deque makes the call return None, a non-empty one leads to popleft.
RecvTest(e, c) ==
    /\ readers[c].pc = "idle"
    /\ readers' = [readers EXCEPT ![c].pc = IF endpoint[e].app_rx # << >> THEN "pop" ELSE "none"]
    /\ UNCHANGED <<endpoint, link, flight, firing, submitted, delivered, rx_mutated,
                   rep_acks, budget, reorder_log, enqueued, last_call, probe, channel, threads>>

\* Thread c returns None from recv_app_data.
RecvNone(c) ==
    /\ readers[c].pc = "none"
    /\ readers' = [readers EXCEPT ![c].pc = "idle"]
    /\ UNCHANGED <<endpoint, link, flight, firing, submitted, delivered, rx_mutated,
                   rep_acks, budget, reorder_log, enqueued, last_call, probe, channel, threads>>

\* Thread c evaluates self.app_rx.popleft() on e: popleft of an empty deque
\* raises IndexError.
RecvPop(e, c) ==
    /\ readers[c].pc = "pop"
    /\ IF endpoint[e].app_rx # << >>
       THEN /\ endpoint' = [endpoint EXCEPT ![e].app_rx = Tail(@)]
            /\ delivered' = [delivered EXCEPT ![e] = Append(@, Head(endpoint[e].app_rx))]
            /\ readers' = [readers EXCEPT ![c] = [pc |-> "idle",
                                                  got |-> Append(@.got, Head(endpoint[e].app_rx)),
                                                  failed |-> @.failed]]
       ELSE /\ readers' = [readers EXCEPT ![c] = [pc |-> "idle", got |-> @.got, failed |-> TRUE]]
            /\ UNCHANGED <<endpoint, delivered>>
    /\ UNCHANGED <<link, flight, firing, submitted, rx_mutated,
                   rep_acks, budget, reorder_log, enqueued, last_call, probe, channel, threads>>

NextRecv ==
    \/ \E e \in EP, data \in budget.payloads : SendData(e, data)
    \/ \E c \in Readers : RecvTest("B", c)
    \/ \E c \in Readers : RecvNone(c)
    \/ \E c \in Readers : RecvPop("B", c)
    \/ \E m \in BagToSet(flight) : Verify(m)
    \/ \E m \in BagToSet(flight) : ReceiveData(m)
    \/ \E m \in BagToSet(flight) : ReceiveAck(m)

SpecRecv == InitRecv /\ [][NextRecv]_vars

----------------------------------------------------------------------------
(* The channel log alone: _log_event is called from the send paths (each     *)
(* under the lock of its own endpoint) and from the delivery threads (under  *)
(* no lock), so several threads can be inside it.  The k-th event appended   *)
(* is the number k.                                                          *)

InitLog == InitFor(Quiet) /\ probe = NoProbe

\* seq[-n:]
LastOf(seq, n) == SubSeq(seq, Max(1, Len(seq) - n + 1), Len(seq))

\* self.log_events.append(event)
LogAppend(t) ==
    /\ channel.pc[t] = "idle"
    /\ Len(channel.logged) < MaxLogWrites
    /\ channel' = [channel EXCEPT !.log_events = Append(@, Len(channel.logged) + 1),
                                  !.logged = Append(@, Len(channel.logged) + 1),
                                  !.pc[t] = "test"]
    /\ UNCHANGED <<endpoint, link, flight, firing, submitted, delivered, rx_mutated,
                   rep_acks, budget, reorder_log, enqueued, last_call, readers, probe, threads>>

\* if len(self.log_events) > 10000
LogTest(t) ==
    /\ channel.pc[t] = "test"
    /\ channel' = [channel EXCEPT !.pc[t] = IF Len(channel.log_events) > LogLimit
                                            THEN "slice" ELSE "idle"]
    /\ UNCHANGED <<endpoint, link, flight, firing, submitted, delivered, rx_mutated,
                   rep_acks, budget, reorder_log, enqueued, last_call, readers, probe, threads>>

\* self.log_events[-10000:] is evaluated: a new list
LogSlice(t) ==
    /\ channel.pc[t] = "slice"
    /\ channel' = [channel EXCEPT !.kept[t] = LastOf(channel.log_events, LogLimit),
                                  !.pc[t] = "assign"]
    /\ UNCHANGED <<endpoint, link, flight, firing, submitted, delivered, rx_mutated,
                   rep_acks, budget, reorder_log, enqueued, last_call, readers, probe, threads>>

\* self.log_events = <the new list>
LogAssign(t) ==
    /\ channel.pc[t] = "assign"
    /\ channel' = [channel EXCEPT !.log_events = channel.kept[t],
                                  !.kept[t] = << >>,
                                  !.pc[t] = "idle"]
    /\ UNCHANGED <<endpoint, link, flight, firing, submitted, delivered, rx_mutated,
                   rep_acks, budget, reorder_log, enqueued, last_call, readers, probe, threads>>

NextLog ==
    \/ \E t \in Loggers : LogAppend(t)
    \/ \E t \in Loggers : LogTest(t)
    \/ \E t \in Loggers : LogSlice(t)
    \/ \E t \in Loggers : LogAssign(t)

SpecLog == InitLog /\ [][NextLog]_vars

----------------------------------------------------------------------------
(* The wiring of run_experiment: one UnreliableLink object (reorder_prob =   *)
(* 0.05) is given as ab_link and as ba_link, the endpoints are built with    *)
(* their defaults, and only endpoint A calls send_data.                      *)

InitShared ==
    /\ InitFor([links |-> Both(Setting(0, 0, 5)),
                rto |-> 200, cc |-> Both(TRUE), ssthresh |-> DEFAULT_SSTHRESH_INIT,
                cwnd |-> DEFAULT_CWND_INIT, bounded_faults |-> FALSE, trace |-> FALSE,
                shared |-> TRUE, window |-> WINDOW, payloads |-> {<<7>>},
                sends |-> OneWay(MaxSend), fires |-> OneWay(MaxTimeouts - 1)])
    /\ probe = NoProbe

SpecShared == InitShared /\ [][Next]_vars

----------------------------------------------------------------------------
(* The locks alone.  send_data, _timeout and on_receive run `with self.lock` *)
(* of their endpoint and call _send inside it; _send updates the counters    *)
(* and the reorder buffer of the link object of its direction and, unless    *)
(* the packet is dropped or held, starts a Timer thread that runs deliver,   *)
(* which calls on_receive of the peer.  Both wirings of the channel are      *)
(* explored: a link object for each direction (the defaults of               *)
(* UnreliableChannel) and one object for both (run_experiment).              *)

InitThreads ==
    /\ \E sh \in BOOLEAN :
          InitFor([links |-> Both(Setting(50, 0, 5)),
                   rto |-> 200, cc |-> Both(TRUE), ssthresh |-> DEFAULT_SSTHRESH_INIT,
                   cwnd |-> DEFAULT_CWND_INIT, bounded_faults |-> FALSE, trace |-> FALSE,
                   shared |-> sh, window |-> WINDOW, payloads |-> Payloads,
                   sends |-> Both(0), fires |-> Both(0)])
    /\ probe = NoProbe

Aloof == <<endpoint, flight, firing, submitted, delivered, rx_mutated, rep_acks, budget,
           reorder_log, enqueued, last_call, readers, probe, channel>>

\* The lock of endpoint e is held by no thread.
LockFree(e) == \A u \in Tids : e \notin threads.of[u].holds

\* The thread is inside the pipeline of _send.
InPipeline(th) == th.pc \in {"read", "pipeline"}

\* Mutant: _send calls deliver itself instead of starting a Timer thread for it.
start_delivery_Inline(of, t, u) ==
    [of EXCEPT ![t] = [pc |-> "acquire", e |-> Peer(of[t].e), holds |-> of[t].holds,
                       tmp |-> 0]]

\* t = threading.Timer(delay, deliver); t.start(): thread u will run deliver,
\* that is on_receive of the peer of the direction; thread t returns from _send.
start_delivery(of, t, u) ==
    [of EXCEPT ![u] = [pc |-> "acquire", e |-> Peer(of[t].e), holds |-> {}, tmp |-> 0],
               ![t].pc = "sent"]

\* An application thread calls send_data of e, or a Timer thread _timeout of e.
EnterCall(t, e) ==
    /\ threads.of[t].pc = "free"
    /\ threads.calls < MaxCalls
    /\ threads' = [threads EXCEPT !.of[t] = [pc |-> "acquire", e |-> e, holds |-> {}, tmp |-> 0],
                                  !.calls = @ + 1]
    /\ UNCHANGED <<link, Aloof>>

\* with self.lock: the thread gets the lock of its endpoint once it is free.
Acquire(t) ==
    /\ threads.of[t].pc = "acquire"
    /\ LockFree(threads.of[t].e)
    /\ threads' = [threads EXCEPT !.of[t].holds = @ \cup {threads.of[t].e},
                                  !.of[t].pc = "locked"]
    /\ UNCHANGED <<link, Aloof>>

\* _channel_send(pkt): _send reads link.packets_sent of `link.packets_sent += 1`.
BeginSend(t) ==
    /\ threads.of[t].pc = "locked"
    /\ threads.sends < MaxThreadSends
    /\ threads' = [threads EXCEPT !.of[t].pc = "read",
                                  !.of[t].tmp = link[Via(threads.of[t].e)].packets_sent,
                                  !.sends = @ + 1]
    /\ UNCHANGED <<link, Aloof>>

\* _send writes link.packets_sent and goes on to the drop, corruption and
\* reorder stages.
CountSend(t) ==
    /\ threads.of[t].pc = "read"
    /\ link' = [link EXCEPT ![Via(threads.of[t].e)].packets_sent = threads.of[t].tmp + 1]
    /\ threads' = [threads EXCEPT !.of[t].pc = "pipeline"]
    /\ UNCHANGED Aloof

\* maybe_drop() is true: link.packets_lost += 1 and _send returns.
DropSend(t) ==
    /\ threads.of[t].pc = "pipeline"
    /\ TRUE \in Draw(link[Via(threads.of[t].e)].loss)
    /\ link' = [link EXCEPT ![Via(threads.of[t].e)].packets_lost = @ + 1]
    /\ threads' = [threads EXCEPT !.of[t].pc = "sent"]
    /\ UNCHANGED Aloof

\* _send returns: the packet was held by maybe_reorder, or a delivery was started.
FinishSend(t) ==
    /\ threads.of[t].pc = "pipeline"
    /\ \/ /\ TRUE \in Draw(link[Via(threads.of[t].e)].reorder_prob)
          /\ threads' = [threads EXCEPT !.of[t].pc = "sent"]
       \/ \E u \in Tids :
             /\ u # t
             /\ threads.of[u].pc = "free"
             /\ threads' = [threads EXCEPT !.of = start_delivery(threads.of, t, u)]
    /\ UNCHANGED <<link, Aloof>>

\* The entry point returns and the thread ends; the lock is released.
Leave(t) ==
    /\ threads.of[t].pc \in {"locked", "sent"}
    /\ threads' = [threads EXCEPT !.of[t] = NoThread]
    /\ UNCHANGED <<link, Aloof>>

NextThreads ==
    \/ \E t \in Tids, e \in EP : EnterCall(t, e)
    \/ \E t \in Tids : Acquire(t)
    \/ \E t \in Tids : BeginSend(t)
    \/ \E t \in Tids : CountSend(t)
    \/ \E t \in Tids : DropSend(t)
    \/ \E t \in Tids : FinishSend(t)
    \/ \E t \in Tids : Leave(t)

SpecThreads == InitThreads /\ [][NextThreads]_vars

----------------------------------------------------------------------------
(* A one-way transfer: only endpoint A calls send_data, both endpoints have  *)
(* congestion control and cwnd_init = 1, and each direction has its own      *)
(* link, which loses, corrupts and reorders.                                 *)

InitOneWay ==
    /\ InitFor([links |-> Both(Setting(50, 50, 50)),
                rto |-> 200, cc |-> Both(TRUE), ssthresh |-> DEFAULT_SSTHRESH_INIT,
                cwnd |-> DEFAULT_CWND_INIT, bounded_faults |-> FALSE, trace |-> FALSE,
                shared |-> FALSE, window |-> WINDOW, payloads |-> {<<7>>},
                sends |-> OneWay(MaxSend + 1), fires |-> OneWay(MaxTimeouts)])
    /\ probe = NoProbe

SpecOneWay == InitOneWay /\ [][Next]_vars

----------------------------------------------------------------------------
(* Properties *)

IsPrefix(s, t) == Len(s) <= Len(t) /\ \A i \in 1 .. Len(s) : s[i] = t[i]

\* C1: the payloads returned by successive recv_app_data calls of an endpoint
\* are a prefix of the payloads its peer's send_data accepted: same order,
\* byte-identical, nothing duplicated, reordered or inserted.
C1_DeliveredIsPrefixOfSubmitted ==
    \A e \in EP : IsPrefix(delivered[e], submitted[Peer(e)])

C4_SentKeysAreTheWindow ==
    \A e \in EP : DOMAIN endpoint[e].sent = endpoint[e].base .. (endpoint[e].nextseq - 1)

\* The retransmission timer of ep is armed: a Timer is pending, or it woke up
\* and its callback has yet to run.
TimerArmed(e) ==
    \/ endpoint[e].timer = "pending"
    \/ endpoint[e].timer = "expired" /\ firing[e] > 0

C6_MutatedNeverReceived == \A e \in EP : ~rx_mutated[e]

\* C7: cwnd >= 1 and ssthresh >= 2 in every state (the endpoints are built
\* with cwnd_init >= 1 and ssthresh_init >= 2).
C7_CwndAndSsthreshFloors ==
    \A e \in EP : endpoint[e].cwnd.n >= endpoint[e].cwnd.d /\ endpoint[e].ssthresh >= MIN_SSTHRESH

\* C7 witness: an endpoint with congestion control fast-retransmitted, and the
\* decrease left ssthresh on its floor and cwnd equal to it.
C7_Witness ==
    \E e \in EP : /\ endpoint[e].enable_congestion_control
                  /\ endpoint[e].fast_retransmits >= 1
                  /\ endpoint[e].ssthresh = MIN_SSTHRESH
                  /\ endpoint[e].cwnd = Frac(MIN_SSTHRESH, 1)

\* C8: a sender with base < nextseq that receives its third ACK repeating
\* ack = base - 1, with no base-advancing ACK in between, fast-retransmits:
\* fast_retransmits and retransmissions go up by one and the timer is re-armed.
C8_ThirdRepeatedAckRetransmits ==
    [][\A e \in EP :
         (/\ rep_acks[e] = DUP_ACK_THRESHOLD - 1
          /\ rep_acks'[e] = DUP_ACK_THRESHOLD
          /\ endpoint[e].base < endpoint[e].nextseq)
         => /\ endpoint'[e].fast_retransmits = endpoint[e].fast_retransmits + 1
            /\ endpoint'[e].retransmissions = endpoint[e].retransmissions + 1
            /\ endpoint'[e].timer = "pending"]_vars

\* C9, as stated: every increment of the timeouts counter doubles rto_ms, up
\* to 60000.
C9_EveryTimeoutDoublesRto ==
    [][\A e \in EP :
         endpoint'[e].timeouts = endpoint[e].timeouts + 1
         => endpoint'[e].rto_ms = Min(RTO_MAX, 2 * endpoint[e].rto_ms)]_vars

\* C9, amended: a firing of the timer that finds base unacknowledged (it
\* retransmits) sets rto_ms to min(60000, 2 * rto_ms); a firing that finds
\* nothing unacknowledged leaves rto_ms as it was.
C9_RetransmittingTimeoutDoublesRto ==
    [][\A e \in EP :
         endpoint'[e].timeouts = endpoint[e].timeouts + 1
         => IF endpoint[e].base < endpoint[e].nextseq
            THEN endpoint'[e].rto_ms = Min(RTO_MAX, 2 * endpoint[e].rto_ms)
            ELSE endpoint'[e].rto_ms = endpoint[e].rto_ms]_vars

\* C9 witness: a timeout that retransmitted doubled an RTO above 30000 into
\* the cap of 60000.
C9_Witness ==
    \E e \in EP : /\ endpoint[e].timeouts >= 1
                  /\ endpoint[e].retransmissions >= 1
                  /\ endpoint[e].rto_ms = RTO_MAX

SwapPairs(s) == [i \in 1 .. Len(s) |-> IF i % 2 = 1 THEN s[i + 1] ELSE s[i - 1]]

\* C10: with reorder_prob = 1, after an even number of packets went into
\* maybe_reorder the packets it released are the input with adjacent pairs
\* swapped (p2, p1, p4, p3, ...), so every input packet was released.
C10_ReorderSwapsAdjacentPairs ==
    (link["A"].reorder_prob = 100 /\ Len(reorder_log.in) % 2 = 0)
        => reorder_log.out = SwapPairs(reorder_log.in)

\* C11: verify_checksum(add_checksum(p)) is true for every DATA or ACK packet
\* p, and verify_checksum is false once exactly one payload byte of a stamped
\* DATA packet has been replaced by a different value.
C11_ChecksumRoundTrip ==
    /\ probe.stage = "stamped" => verify_checksum(probe.pkt)
    /\ probe.stage = "altered" => ~verify_checksum(probe.pkt)

\* C11 witness: the second byte of a two-byte payload of a stamped DATA packet
\* with seq > 0 was replaced.
C11_Witness ==
    /\ probe.stage = "altered"
    /\ probe.pkt.num > 0
    /\ Len(probe.pkt.payload) > 1
    /\ probe.pkt.payload[1] \in ByteSamples
    /\ probe.pkt.payload[2] \notin ByteSamples

Floor(f) == f.n \div f.d

\* C12: send_data accepts exactly when nextseq < base + floor(cwnd) with
\* congestion control, or nextseq < base + window without: every accepted send
\* finds nextseq below base plus the floor of the effective window, and every
\* refused send finds it at or above.
C12_AcceptsWithinFloorOfWindow ==
    [][\A e \in EP :
         /\ endpoint'[e].nextseq = endpoint[e].nextseq + 1
              => endpoint[e].nextseq < endpoint[e].base + Floor(EffectiveWindow(endpoint[e]))
         /\ (last_call'.op = "send_data" /\ last_call'.e = e /\ ~last_call'.ret)
              => endpoint[e].nextseq >= endpoint[e].base + Floor(EffectiveWindow(endpoint[e]))]_vars

\* C13: a send_data that returns false changes nothing: the endpoint (nextseq,
\* base, sent, packets_sent, the timer, the congestion state), the link and
\* the scheduled deliveries are as before, so no packet went to the channel.
C13_RefusedSendChangesNothing ==
    [][(last_call'.op = "send_data" /\ ~last_call'.ret)
         => /\ endpoint' = endpoint
            /\ link' = link
            /\ flight' = flight
            /\ firing' = firing
            /\ submitted' = submitted
            /\ last_call'.tx = << >>]_vars

\* C13 witness: send_data was just refused by a full static window, with
\* SmallWindow segments unacknowledged and the timer pending.
C13_Witness ==
    /\ last_call.op = "send_data"
    /\ ~last_call.ret
    /\ endpoint[last_call.e].timer = "pending"
    /\ ~endpoint[last_call.e].enable_congestion_control
    /\ endpoint[last_call.e].nextseq = endpoint[last_call.e].base + SmallWindow

\* C14: the payloads ever appended to app_rx of a receiver are those of the
\* sequence numbers 0 .. last_acked, each once and in increasing order (so a
\* DATA packet with seq # last_acked + 1 was never enqueued), and they are
\* the ones still queued plus the ones recv_app_data returned.
C14_EnqueuedAreZeroToLastAcked ==
    \A e \in EP :
        /\ enqueued[e] = [i \in 1 .. (endpoint[e].last_acked + 1) |-> i - 1]
        /\ Len(delivered[e]) + Len(endpoint[e].app_rx) = endpoint[e].last_acked + 1

\* C14 witness: B enqueued two segments and answered at least two more DATA
\* packets, duplicates or out of order, that it did not enqueue.
C14_Witness ==
    /\ endpoint["B"].last_acked = 1
    /\ endpoint["B"].nextseq = 0
    /\ link["B"].packets_sent >= 4
    /\ delivered["B"] # << >>

\* C15: every DATA packet an endpoint receives, in order or not, makes it hand
\* exactly one packet to the channel, an ACK that carries last_acked as it is
\* after the packet; a DATA packet that is a duplicate or out of order changes
\* neither last_acked, packets_received, cwnd nor the application FIFO.
C15_EveryDataIsAnsweredByOneAck ==
    [][last_call'.op = "on_receive_DATA"
         => LET e == last_call'.e
            IN  /\ last_call'.tx = <<[type |-> "ACK", num |-> endpoint'[e].last_acked]>>
                /\ link'[e].packets_sent = link[e].packets_sent + 1
                /\ last_call'.arg # endpoint[e].last_acked + 1
                     => /\ endpoint'[e].last_acked = endpoint[e].last_acked
                        /\ endpoint'[e].packets_received = endpoint[e].packets_received
                        /\ endpoint'[e].cwnd = endpoint[e].cwnd
                        /\ endpoint'[e].app_rx = endpoint[e].app_rx]_vars

\* C15 witness: a receiver with congestion control that had accepted a segment
\* has just answered a DATA packet beyond a gap.
C15_Witness ==
    /\ last_call.op = "on_receive_DATA"
    /\ endpoint[last_call.e].enable_congestion_control
    /\ endpoint[last_call.e].last_acked >= 0
    /\ last_call.arg > endpoint[last_call.e].last_acked + 1
    /\ last_call.tx = <<[type |-> "ACK", num |-> endpoint[last_call.e].last_acked]>>

\* C16: between two consecutive base-advancing ACKs the sender fast-retransmits
\* at most once: a duplicate ACK that finds dup_count at 3 or more triggers
\* neither a retransmission nor a congestion decrease.
C16_OneFastRetransmitPerRun ==
    [][\A e \in EP :
         (endpoint[e].dup_count >= DUP_ACK_THRESHOLD
            /\ endpoint'[e].dup_count = endpoint[e].dup_count + 1)
         => /\ endpoint'[e].fast_retransmits = endpoint[e].fast_retransmits
            /\ endpoint'[e].retransmissions = endpoint[e].retransmissions
            /\ endpoint'[e].ssthresh = endpoint[e].ssthresh
            /\ endpoint'[e].cwnd = endpoint[e].cwnd]_vars

\* C17: an ACK below base that does not repeat the latest cumulative
\* acknowledgement (ack # base - 1) is ignored, whatever DATA the endpoint has
\* itself received: the endpoint is unchanged and nothing is resent.
C17_OldAckIsIgnored ==
    [][(/\ last_call'.op = "on_receive_ACK"
        /\ last_call'.arg < endpoint[last_call'.e].base
        /\ last_call'.arg # endpoint[last_call'.e].base - 1)
         => /\ endpoint'[last_call'.e] = endpoint[last_call'.e]
            /\ link'[last_call'.e] = link[last_call'.e]
            /\ last_call'.tx = << >>]_vars

\* C18: a timer callback that gets the lock after its Timer was cancelled or
\* replaced (self.timer is no longer the Timer that woke up) retransmits
\* nothing and changes neither rto_ms, cwnd nor ssthresh.
C18_StaleCallbackDoesNothing ==
    [][\A e \in EP :
         (endpoint'[e].timeouts = endpoint[e].timeouts + 1
            /\ endpoint[e].timer # "expired")
         => /\ endpoint'[e].retransmissions = endpoint[e].retransmissions
            /\ link'[e].packets_sent = link[e].packets_sent
            /\ endpoint'[e].rto_ms = endpoint[e].rto_ms
            /\ endpoint'[e].cwnd = endpoint[e].cwnd
            /\ endpoint'[e].ssthresh = endpoint[e].ssthresh]_vars

\* C19: recv_app_data returns a payload or None and never fails, however
\* many threads call it at once: its test of the receive FIFO and its pop
\* are one atomic step under the endpoint's lock.
C19_RecvAppDataNeverFails == \A c \in Readers : ~readers[c].failed

\* C20: with congestion control enabled, the receipt of in-order DATA changes
\* cwnd to cwnd + 1 when cwnd < ssthresh held before it and to
\* cwnd + ai_factor / cwnd otherwise; every other call (send_data, an ACK,
\* DATA out of order, DATA with congestion control off) leaves cwnd as it is,
\* except where a timeout or a fast retransmit applies the decrease rule.
C20_IncreaseOnInOrderDataOnly ==
    [][\A e \in EP :
         LET ep == endpoint[e]
             c == last_call'
         IN  IF /\ c.op = "on_receive_DATA" /\ c.e = e
                /\ c.arg = ep.last_acked + 1
                /\ ep.enable_congestion_control
             THEN endpoint'[e].cwnd =
                    IF FracLess(ep.cwnd, Frac(ep.ssthresh, 1))
                    THEN FracAdd(ep.cwnd, Frac(1, 1))
                    ELSE FracAdd(ep.cwnd, Frac(DEFAULT_AI_FACTOR * ep.cwnd.d, ep.cwnd.n))
             ELSE \/ endpoint'[e].cwnd = ep.cwnd
                  \/ endpoint'[e].timeouts # ep.timeouts
                  \/ endpoint'[e].fast_retransmits # ep.fast_retransmits]_vars

\* Slow start took cwnd from 1 to ssthresh = 2, and the next in-order DATA
\* was counted by congestion avoidance: cwnd = 2 + 1/2.
C20_Witness ==
    \E e \in EP :
        /\ endpoint[e].enable_congestion_control
        /\ last_call.op = "on_receive_DATA" /\ last_call.e = e
        /\ last_call.arg = endpoint[e].last_acked
        /\ endpoint[e].packets_received = 2
        /\ endpoint[e].ssthresh = MIN_SSTHRESH
        /\ endpoint[e].cwnd = [n |-> 5, d |-> 2]

\* C21: with congestion control enabled, a timeout that retransmits sets
\* ssthresh = max(2, floor(cwnd * md_factor)) and cwnd = 1, and a fast
\* retransmit sets ssthresh to the same value and cwnd = ssthresh, cwnd being
\* the value before the event.
C21_MultiplicativeDecrease ==
    [][\A e \in EP :
         LET ep == endpoint[e]
             halved == Max(2, (ep.cwnd.n * MD_FACTOR_NUM) \div (ep.cwnd.d * MD_FACTOR_DEN))
         IN  /\ (/\ ep.enable_congestion_control
                 /\ endpoint'[e].timeouts = ep.timeouts + 1
                 /\ endpoint'[e].retransmissions = ep.retransmissions + 1)
                => /\ endpoint'[e].ssthresh = halved
                   /\ endpoint'[e].cwnd = [n |-> 1, d |-> 1]
             /\ (/\ ep.enable_congestion_control
                 /\ endpoint'[e].fast_retransmits = ep.fast_retransmits + 1)
                => /\ endpoint'[e].ssthresh = halved
                   /\ endpoint'[e].cwnd = [n |-> halved, d |-> 1]]_vars

\* An endpoint with congestion control has been through both loss events: a
\* timeout that retransmitted and a fast retransmit.
C21_Witness ==
    \E e \in EP : /\ endpoint[e].enable_congestion_control
                  /\ endpoint[e].timeouts >= 1
                  /\ endpoint[e].fast_retransmits >= 1
                  /\ endpoint[e].retransmissions >= 2

\* C22, as stated: cwnd decreases only in a step that is a timeout
\* retransmission or a fast retransmit, and neither kind of loss event leaves
\* cwnd larger than it was before the event.
C22_LossEventsNeverRaiseCwnd ==
    [][\A e \in EP :
         LET ep == endpoint[e]
             timed_out == /\ endpoint'[e].timeouts = ep.timeouts + 1
                          /\ endpoint'[e].retransmissions = ep.retransmissions + 1
             fast == endpoint'[e].fast_retransmits = ep.fast_retransmits + 1
         IN  /\ FracLess(endpoint'[e].cwnd, ep.cwnd) => timed_out \/ fast
             /\ timed_out \/ fast => ~FracLess(ep.cwnd, endpoint'[e].cwnd)]_vars

\* C22, amended: cwnd decreases only in a step that is a timeout
\* retransmission or a fast retransmit; a timeout never leaves cwnd larger
\* than it was; a fast retransmit leaves cwnd no larger than it was when cwnd
\* was at least 2, and raises a cwnd below 2 to exactly 2.
C22_LossEventsBoundCwnd ==
    [][\A e \in EP :
         LET ep == endpoint[e]
             timed_out == /\ endpoint'[e].timeouts = ep.timeouts + 1
                          /\ endpoint'[e].retransmissions = ep.retransmissions + 1
             fast == endpoint'[e].fast_retransmits = ep.fast_retransmits + 1
         IN  /\ FracLess(endpoint'[e].cwnd, ep.cwnd) => timed_out \/ fast
             /\ timed_out => ~FracLess(ep.cwnd, endpoint'[e].cwnd)
             /\ fast => IF FracLess(ep.cwnd, [n |-> 2, d |-> 1])
                         THEN ep.enable_congestion_control
                                => endpoint'[e].cwnd = [n |-> 2, d |-> 1]
                         ELSE ~FracLess(ep.cwnd, endpoint'[e].cwnd)]_vars

\* An endpoint with congestion control that never received DATA (its cwnd was
\* never increased by the additive rule), retransmitted on a timeout (cwnd = 1)
\* and fast-retransmitted, stands at cwnd = 2: the fast retransmit came last
\* and raised cwnd.
C22_Witness ==
    \E e \in EP : /\ endpoint[e].enable_congestion_control
                  /\ endpoint[e].packets_received = 0
                  /\ endpoint[e].timeouts >= 1
                  /\ endpoint[e].fast_retransmits >= 1
                  /\ endpoint[e].retransmissions = endpoint[e].timeouts + endpoint[e].fast_retransmits
                  /\ endpoint[e].cwnd = [n |-> 2, d |-> 1]

\* C23: for every reorder_prob, maybe_reorder conserves packets: after any
\* sequence of calls each packet passed in has been returned by some call or
\* is the one held in the reorder buffer.
C23_ReorderConservesPackets ==
    LET passed == {reorder_log.in[i] : i \in 1 .. Len(reorder_log.in)}
        returned == {reorder_log.out[i] : i \in 1 .. Len(reorder_log.out)}
        held == IF link["A"].reorder_buffer = NoRef THEN {} ELSE {link["A"].reorder_buffer}
    IN  passed = returned \cup held

\* C24: once the threads that write the channel log have returned, the log
\* holds at most the limit of entries and they are exactly the most recently
\* logged events.
C24_LogKeepsNewestEvents ==
    (\A t \in Loggers : channel.pc[t] = "idle")
        => /\ Len(channel.log_events) <= LogLimit
           /\ channel.log_events = LastOf(channel.logged, LogLimit)

\* C26: every packet passed to on_receive of an endpoint was submitted to the
\* channel by the other endpoint: a delivery that passed the checksum test and
\* is handed to the peer of its direction carries a packet of the endpoint the
\* direction is named after.
C26_DeliveredToThePeerOfTheSender ==
    [][\A m \in BagToSet(flight) :
         (m.verified /\ CopiesIn(m, flight') < CopiesIn(m, flight))
            => m.ref.src = m.dir]_vars

\* C25: no two threads execute the send pipeline of the same UnreliableLink
\* object at the same time, for every wiring of the channel.
C25_OneThreadPerLinkPipeline ==
    \A t, u \in Tids :
        (t # u /\ InPipeline(threads.of[t]) /\ InPipeline(threads.of[u]))
            => Via(threads.of[t].e) # Via(threads.of[u].e)

\* C27: no thread holds a lock while it acquires one, and whenever a thread
\* waits for a lock, the lock is free or its holder is running (it waits for
\* nothing), so the entry points always run to completion.
C27_NoLockHeldWhileAcquiring ==
    \A t \in Tids :
        threads.of[t].pc = "acquire"
            => /\ threads.of[t].holds = {}
               /\ \A u \in Tids :
                     threads.of[t].e \in threads.of[u].holds => threads.of[u].pc # "acquire"

\* A delivery thread waits for the lock of B, which a send_data or _timeout of
\* B holds, while the thread that submitted the packet still holds the lock of A.
C27_Witness ==
    \E t, u, v \in Tids :
        /\ threads.of[t].pc = "acquire" /\ threads.of[t].e = "B"
        /\ "B" \in threads.of[u].holds
        /\ "A" \in threads.of[v].holds /\ threads.of[v].pc = "sent"

\* C28: in every state, for each endpoint packets_sent = nextseq,
\* packets_received = last_acked + 1 and retransmissions <= timeouts +
\* fast_retransmits, and for each link packets_lost <= packets_sent.
C28_CountersAgreeWithState ==
    /\ \A e \in EP :
          /\ endpoint[e].packets_sent = endpoint[e].nextseq
          /\ endpoint[e].packets_received = endpoint[e].last_acked + 1
          /\ endpoint[e].retransmissions <= endpoint[e].timeouts + endpoint[e].fast_retransmits
    /\ \A d \in EP : link[d].packets_lost <= link[d].packets_sent

\* C29: in a one-way transfer with congestion control and cwnd_init = 1 on
\* both endpoints and a link for each direction, the cwnd of A never exceeds 1,
\* A never has more than one unacknowledged segment in flight and A never
\* performs a fast retransmit.
C29_OneWaySenderStaysAtOne ==
    /\ ~FracLess([n |-> 1, d |-> 1], endpoint["A"].cwnd)
    /\ endpoint["A"].nextseq - endpoint["A"].base <= 1
    /\ endpoint["A"].fast_retransmits = 0

\* A got two segments acknowledged after retransmitting on a timeout, and the
\* in-order DATA grew the cwnd of the receiver B instead.
C29_Witness ==
    /\ endpoint["A"].base >= 2
    /\ endpoint["A"].retransmissions >= 1
    /\ endpoint["B"].packets_received >= 2
    /\ FracLess([n |-> 1, d |-> 1], endpoint["B"].cwnd)

====
